---- MODULE Spec2Model ----
(***************************************************************************)
(* A model of the embeddable shell of simple_shell.h: the custom command   *)
(* registry, the job table, the three-stage command dispatch               *)
(* (custom -> built-in -> external) and the read loop shell_run.           *)
(*                                                                         *)
(* Strings are sequences of one-character strings, so that tokenization    *)
(* (strtok on " ") and strcmp are computed, not assumed.  A NULL pointer   *)
(* is the distinguished value NULL.  The session pointer ctx is never NULL *)
(* (the session exists), so the `!ctx' early returns are not modelled.     *)
(***************************************************************************)
EXTENDS Integers, Sequences, FiniteSets, TLC

(***************************************************************************)
(* Capacities.  The source sets MAX_CUSTOM_COMMANDS = 50 and               *)
(* MAX_JOBS = 100; the model scales them down, every guard of the code     *)
(* being a comparison with the capacity.                                   *)
(***************************************************************************)
MAX_CUSTOM_COMMANDS == 2

MAX_JOBS == 2

MAX_HISTORY_SIZE == 1

\* Slots of the array tokens[] of shell_execute_command (1024 in the
\* source), scaled down.  Every line of the model fits in the line buffer
\* of shell_run, which the source gives the same size.
MAX_INPUT_SIZE == 6

\* Process identifiers the operating system hands out: 1..MaxPid.
MaxPid == 2

\* Longest line of space characters that is read.
MaxSpaces == 2

(***************************************************************************)
(* Strings                                                                 *)
(***************************************************************************)
NULL == <<"NULL">>

SP == <<" ">>

LT == <<"<">>

GT == <<">">>

GTGT == <<">", ">">>

exit == <<"e", "x", "i", "t">>

history_s == <<"h", "i", "s", "t", "o", "r", "y">>

jobs_s == <<"j", "o", "b", "s">>

echo2 == <<"e", "c", "h", "o", "2">>

cat == <<"c", "a", "t">>

ls == <<"l", "s">>

nx == <<"n", "x">>

f_in == <<"i", "n">>

f_out == <<"o", "u", "t">>

f_no == <<"n", "o">>

\* The executables the search path resolves, and the files that can be
\* opened for reading and for writing.
Executables == {cat, ls}

ReadableFiles == {f_in}

WritableFiles == {f_out}

RECURSIVE Spaces(_)
Spaces(n) == IF n = 0 THEN <<>> ELSE SP \o Spaces(n - 1)

SpaceLines == {Spaces(n) : n \in 0..MaxSpaces}

\* The command lines given to the shell.
L_echo2 == echo2 \o SP \o <<"a">> \o SP \o <<"b">>

L_cat == cat \o SP \o LT \o SP \o f_in \o SP \o GT \o SP \o f_out

L_ls == SP \o ls \o SP \o SP \o GTGT \o SP \o f_out \o SP

L_cat_no == cat \o SP \o LT \o SP \o f_no

L_cat_n == cat \o SP \o LT \o SP \o f_in \o SP \o <<"-", "n">>

L_cat_gt == cat \o SP \o GT

L_lt_cat == LT \o SP \o f_in \o SP \o cat

\* As many tokens as tokens[] has slots, the last one an operator.
L_cat_full == L_cat \o SP \o GT

CommandLines ==
    {L_echo2, jobs_s, history_s, exit, L_cat, L_ls, nx, L_cat_no, L_cat_n,
     L_cat_gt, L_lt_cat, L_cat_full}

Lines == SpaceLines \cup CommandLines

(***************************************************************************)
(* Tokenizer: strtok(command, " ") until it returns NULL.                  *)
(***************************************************************************)
RECURSIVE SkipDelims(_)
SkipDelims(s) ==
    IF s # <<>> /\ Head(s) = " " THEN SkipDelims(Tail(s)) ELSE s

RECURSIVE TokenLen(_)
TokenLen(s) ==
    IF s = <<>> \/ Head(s) = " " THEN 0 ELSE 1 + TokenLen(Tail(s))

RECURSIVE Tokenize(_)
Tokenize(command) ==
    LET s == SkipDelims(command)
        n == TokenLen(s)
    IN  IF s = <<>> THEN <<>>
        ELSE <<SubSeq(s, 1, n)>> \o Tokenize(SubSeq(s, n + 1, Len(s)))

\* tokens[0..token_count], the slot after the last token holding NULL.
TokenArray(command) == Tokenize(command) \o <<NULL>>

(***************************************************************************)
(* Redirection scan of shell_execute_command.  The array is 1-based here:  *)
(* tokens[i] of the code is toks[i + 1].                                   *)
(***************************************************************************)
IsRedirOp(t) == t = LT \/ t = GT \/ t = GTGT

RECURSIVE RedirScan(_, _, _)
RedirScan(r, i, token_count) ==
    IF i > token_count THEN r
    ELSE LET t == r.tokens[i]
             nxt == r.tokens[i + 1]
             rn == [r EXCEPT !.tokens[i] = NULL, !.slot = i]
         IN  IF t = LT
             THEN RedirScan([rn EXCEPT !.input_file = nxt], i + 1, token_count)
             ELSE IF t = GT
             THEN RedirScan([rn EXCEPT !.output_file = nxt], i + 1, token_count)
             ELSE IF t = GTGT
             THEN RedirScan([rn EXCEPT !.output_file = nxt,
                                       !.append_output = TRUE],
                            i + 1, token_count)
             ELSE RedirScan([r EXCEPT !.slot = i - 1], i + 1, token_count)

\* slot is the highest index of tokens[], counted from 0 as in the code,
\* that the scan has read (-1 if it has read none).
Redirect(command) ==
    LET toks == TokenArray(command)
    IN  RedirScan([tokens |-> toks, input_file |-> NULL, output_file |-> NULL,
                   append_output |-> FALSE, slot |-> -1], 1, Len(toks) - 1)

\* A NULL-terminated argument vector as its reader sees it: the entries
\* before the first NULL.
RECURSIVE ArgvOf(_)
ArgvOf(toks) ==
    IF toks = <<>> \/ Head(toks) = NULL THEN <<>>
    ELSE <<Head(toks)>> \o ArgvOf(Tail(toks))

(***************************************************************************)
(* Status codes (ShellError) and callbacks                                 *)
(***************************************************************************)
SHELL_OK == "SHELL_OK"

SHELL_ERROR_NULL_POINTER == "SHELL_ERROR_NULL_POINTER"

SHELL_ERROR_INVALID_INPUT == "SHELL_ERROR_INVALID_INPUT"

SHELL_ERROR_COMMAND_NOT_FOUND == "SHELL_ERROR_COMMAND_NOT_FOUND"

SHELL_ERROR_EXECUTION_FAILED == "SHELL_ERROR_EXECUTION_FAILED"

SHELL_ERROR_HISTORY_FULL == "SHELL_ERROR_HISTORY_FULL"

SHELL_ERROR_CUSTOM_COMMAND_FULL == "SHELL_ERROR_CUSTOM_COMMAND_FULL"

SHELL_ERROR_JOB_CONTROL_FULL == "SHELL_ERROR_JOB_CONTROL_FULL"

\* Two callbacks a host registers: one that succeeds (custom_hello of the
\* example) and one that reports a failure of its own.  A callback is
\* opaque to the shell; these two do not touch the session.
cb_ok == <<"cb_ok">>

cb_fail == <<"cb_fail">>

Callbacks == {cb_ok, cb_fail}

CallbackResult(callback) ==
    IF callback = cb_ok THEN SHELL_OK ELSE SHELL_ERROR_INVALID_INPUT

Pids == 1..MaxPid

(***************************************************************************)
(* State                                                                   *)
(*   custom_commands  ctx->custom_commands[0..custom_command_count-1]      *)
(*   jobs             ctx->jobs[0..job_count-1]                            *)
(*   history          ctx->base.history[0..history_count-1]                *)
(*   last_error       ctx->base.last_error                                 *)
(*   procs            the operating system's view of each pid: "free",     *)
(*                    "running" (a live child) or "zombie" (an exited      *)
(*                    child not yet waited for)                            *)
(*   pc               where the host program is: "host" (between calls of  *)
(*                    the API), "run" (inside shell_run's loop, blocked in *)
(*                    fgets), "exit" (exit(0) was called), "crash"         *)
(*   last             what the last operation did: its name, argument,     *)
(*                    return status and the calls it made                  *)
(***************************************************************************)
VARIABLES custom_commands, jobs, history, last_error, procs, pc, last

vars == <<custom_commands, jobs, history, last_error, procs, pc, last>>

custom_command_count == Len(custom_commands)

job_count == Len(jobs)

history_count == Len(history)

\* The record of an operation that has made no call yet.
NoTrace ==
    [op |-> "none", args |-> <<>>, line |-> NULL, ret |-> "none",
     custom |-> 0, argc |-> 0, argv |-> <<>>,
     builtin |-> "none",
     spawn |-> "none", spawn_argv |-> <<>>, input_file |-> NULL,
     output_file |-> NULL, append_output |-> FALSE, pid |-> 0,
     add_job |-> "none", polled |-> FALSE, notices |-> <<>>, listing |-> <<>>,
     slot |-> -1]

\* The session and its surroundings as one value, threaded through the
\* functions below.
Session ==
    [custom_commands |-> custom_commands, jobs |-> jobs, history |-> history,
     last_error |-> last_error, procs |-> procs, trace |-> NoTrace]

\* The result of a call: the state it leaves, the status it returns and
\* whether it returned at all ("return"), ended the process through exit(0)
\* ("exit") or crashed ("crash").
Returns(st, ret) == [st |-> st, ret |-> ret, fate |-> "return"]

Exits(st) == [st |-> st, ret |-> "none", fate |-> "exit"]

Crashes(st) == [st |-> st, ret |-> "none", fate |-> "crash"]

(***************************************************************************)
(* shell_register_command.  strdup is taken to succeed: memory exhaustion  *)
(* (SHELL_ERROR_MEMORY_ALLOCATION) is outside the model.                   *)
(***************************************************************************)
\* A variant with the capacity test off by one (> for >=).
shell_register_command_off_by_one(st, name, callback) ==
    IF name = NULL \/ callback = NULL
    THEN Returns(st, SHELL_ERROR_NULL_POINTER)
    ELSE IF Len(st.custom_commands) > MAX_CUSTOM_COMMANDS
    THEN Returns([st EXCEPT !.last_error = SHELL_ERROR_CUSTOM_COMMAND_FULL],
                 SHELL_ERROR_CUSTOM_COMMAND_FULL)
    ELSE Returns([st EXCEPT !.custom_commands =
                      Append(@, [name |-> name, callback |-> callback])],
                 SHELL_OK)

shell_register_command(st, name, callback) ==
    IF name = NULL \/ callback = NULL
    THEN Returns(st, SHELL_ERROR_NULL_POINTER)
    ELSE IF Len(st.custom_commands) >= MAX_CUSTOM_COMMANDS
    THEN Returns([st EXCEPT !.last_error = SHELL_ERROR_CUSTOM_COMMAND_FULL],
                 SHELL_ERROR_CUSTOM_COMMAND_FULL)
    ELSE Returns([st EXCEPT !.custom_commands =
                      Append(@, [name |-> name, callback |-> callback])],
                 SHELL_OK)

(***************************************************************************)
(* shell_add_job                                                           *)
(***************************************************************************)
\* A variant that makes room in a full table by dropping the oldest job.
shell_add_job_evicting(st, pid, command) ==
    IF command = NULL
    THEN Returns(st, SHELL_ERROR_NULL_POINTER)
    ELSE Returns([st EXCEPT !.jobs =
                      Append(IF Len(@) >= MAX_JOBS THEN Tail(@) ELSE @,
                             [pid |-> pid, command |-> command,
                              running |-> TRUE])],
                 SHELL_OK)

shell_add_job(st, pid, command) ==
    IF command = NULL
    THEN Returns(st, SHELL_ERROR_NULL_POINTER)
    ELSE IF Len(st.jobs) >= MAX_JOBS
    THEN Returns([st EXCEPT !.last_error = SHELL_ERROR_JOB_CONTROL_FULL],
                 SHELL_ERROR_JOB_CONTROL_FULL)
    ELSE Returns([st EXCEPT !.jobs =
                      Append(@, [pid |-> pid, command |-> command,
                                 running |-> TRUE])],
                 SHELL_OK)

(***************************************************************************)
(* shell_update_jobs.  waitpid(pid, &status, WNOHANG) returns the pid of   *)
(* an exited child and releases it, 0 for a child still running and -1     *)
(* when the pid is no child of the shell.                                  *)
(***************************************************************************)
waitpid(ps, pid) ==
    IF ps[pid] = "zombie" THEN pid
    ELSE IF ps[pid] = "running" THEN 0
    ELSE -1

Reap(ps, pid) ==
    IF ps[pid] = "zombie" THEN [ps EXCEPT ![pid] = "free"] ELSE ps

\* A variant that drops a job from the table once it has reported it.
RECURSIVE UpdateJobsFrom_pruning(_, _)
UpdateJobsFrom_pruning(st, i) ==
    IF i > Len(st.jobs) THEN st
    ELSE IF st.jobs[i].running /\ waitpid(st.procs, st.jobs[i].pid) > 0
    THEN UpdateJobsFrom_pruning(
             [st EXCEPT !.jobs = SubSeq(@, 1, i - 1)
                                     \o SubSeq(@, i + 1, Len(@)),
                        !.procs = Reap(@, st.jobs[i].pid),
                        !.trace.notices = Append(@, <<i, st.jobs[i].command>>)],
             i)
    ELSE UpdateJobsFrom_pruning(st, i + 1)

\* A variant that examines the table from its last entry to its first.
RECURSIVE UpdateJobsFrom_backwards(_, _)
UpdateJobsFrom_backwards(st, i) ==
    IF i > Len(st.jobs) THEN st
    ELSE LET k == Len(st.jobs) + 1 - i
         IN  IF st.jobs[k].running /\ waitpid(st.procs, st.jobs[k].pid) > 0
             THEN UpdateJobsFrom_backwards(
                      [st EXCEPT !.jobs[k].running = FALSE,
                                 !.procs = Reap(@, st.jobs[k].pid),
                                 !.trace.notices =
                                     Append(@, <<k, st.jobs[k].command>>)],
                      i + 1)
             ELSE UpdateJobsFrom_backwards(st, i + 1)

\* A variant that polls every entry, settled or not, and takes the
\* running flag from what waitpid reports.
RECURSIVE UpdateJobsFrom_refreshing(_, _)
UpdateJobsFrom_refreshing(st, i) ==
    IF i > Len(st.jobs) THEN st
    ELSE IF waitpid(st.procs, st.jobs[i].pid) > 0
    THEN UpdateJobsFrom_refreshing(
             [st EXCEPT !.jobs[i].running = FALSE,
                        !.procs = Reap(@, st.jobs[i].pid),
                        !.trace.notices = Append(@, <<i, st.jobs[i].command>>)],
             i + 1)
    ELSE UpdateJobsFrom_refreshing(
             [st EXCEPT !.jobs[i].running =
                            (waitpid(st.procs, st.jobs[i].pid) = 0)],
             i + 1)

RECURSIVE UpdateJobsFrom(_, _)
UpdateJobsFrom(st, i) ==
    IF i > Len(st.jobs) THEN st
    ELSE IF st.jobs[i].running /\ waitpid(st.procs, st.jobs[i].pid) > 0
    THEN UpdateJobsFrom(
             [st EXCEPT !.jobs[i].running = FALSE,
                        !.procs = Reap(@, st.jobs[i].pid),
                        !.trace.notices = Append(@, <<i, st.jobs[i].command>>)],
             i + 1)
    ELSE UpdateJobsFrom(st, i + 1)

shell_update_jobs(st) ==
    Returns(UpdateJobsFrom([st EXCEPT !.trace.polled = TRUE], 1), SHELL_OK)

(***************************************************************************)
(* shell_execute_custom.  argv is the token array, argv[1] here being      *)
(* argv[0] of the code.  With at least one registered command and          *)
(* argv[0] = NULL the loop calls strcmp(NULL, name), which is undefined:   *)
(* the process crashes or the comparison reports a difference.             *)
(***************************************************************************)
\* A variant that takes the last entry with the name.
RECURSIVE FindCustom_latest(_, _, _)
FindCustom_latest(cmds, name, i) ==
    IF i > Len(cmds) THEN 0
    ELSE LET later == FindCustom_latest(cmds, name, i + 1)
         IN  IF later > 0 THEN later
             ELSE IF cmds[i].name = name THEN i
             ELSE 0

RECURSIVE FindCustom(_, _, _)
FindCustom(cmds, name, i) ==
    IF i > Len(cmds) THEN 0
    ELSE IF cmds[i].name = name THEN i
    ELSE FindCustom(cmds, name, i + 1)

CustomNotFound(st) ==
    Returns([st EXCEPT !.last_error = SHELL_ERROR_COMMAND_NOT_FOUND],
            SHELL_ERROR_COMMAND_NOT_FOUND)

shell_execute_custom(st, argc, argv) ==
    LET i == FindCustom(st.custom_commands, argv[1], 1)
    IN  IF Len(st.custom_commands) > 0 /\ argv[1] = NULL
        THEN {Crashes(st), CustomNotFound(st)}
        ELSE IF i > 0
        THEN {Returns([st EXCEPT !.trace.custom = i, !.trace.argc = argc,
                                 !.trace.argv = argv],
                      CallbackResult(st.custom_commands[i].callback))}
        ELSE {CustomNotFound(st)}

(***************************************************************************)
(* shell_execute_builtin                                                   *)
(***************************************************************************)
JobListing(js) ==
    [i \in 1..Len(js) |-> <<i, js[i].running, js[i].command>>]

\* A variant whose jobs built-in prints the table before it polls.
shell_execute_builtin_stale(st, command) ==
    IF command = NULL
    THEN Returns(st, SHELL_ERROR_NULL_POINTER)
    ELSE IF command = exit
    THEN Exits([st EXCEPT !.trace.builtin = "exit"])
    ELSE IF command = history_s
    THEN Returns([st EXCEPT !.trace.builtin = "history"], SHELL_OK)
    ELSE IF command = jobs_s
    THEN LET u == shell_update_jobs(st).st
         IN  Returns([u EXCEPT !.trace.builtin = "jobs",
                               !.trace.listing = JobListing(st.jobs)],
                     SHELL_OK)
    ELSE Returns([st EXCEPT !.last_error = SHELL_ERROR_COMMAND_NOT_FOUND],
                 SHELL_ERROR_COMMAND_NOT_FOUND)

shell_execute_builtin(st, command) ==
    IF command = NULL
    THEN Returns(st, SHELL_ERROR_NULL_POINTER)
    ELSE IF command = exit
    THEN Exits([st EXCEPT !.trace.builtin = "exit"])
    ELSE IF command = history_s
    THEN Returns([st EXCEPT !.trace.builtin = "history"], SHELL_OK)
    ELSE IF command = jobs_s
    THEN LET u == shell_update_jobs(st).st
         IN  Returns([u EXCEPT !.trace.builtin = "jobs",
                               !.trace.listing = JobListing(u.jobs)],
                     SHELL_OK)
    ELSE Returns([st EXCEPT !.last_error = SHELL_ERROR_COMMAND_NOT_FOUND],
                 SHELL_ERROR_COMMAND_NOT_FOUND)

(***************************************************************************)
(* shell_execute_external.  posix_spawnp fails when argv[0] is not on the  *)
(* search path, when a redirection file cannot be opened, or for lack of   *)
(* resources (which may happen at any time, and does when no pid is        *)
(* left); otherwise it starts a child under a pid that is not in use.      *)
(* posix_spawnp(&pid, NULL, ...) is undefined: the shell crashes, or the   *)
(* call fails, or a child is started that dies at once.                    *)
(***************************************************************************)
FreePids(ps) == {p \in Pids : ps[p] = "free"}

CanSpawn(argv, input_file, output_file) ==
    /\ argv # <<>>
    /\ argv[1] \in Executables
    /\ input_file = NULL \/ input_file \in ReadableFiles
    /\ output_file = NULL \/ output_file \in WritableFiles

SpawnCall(st, argv, input_file, output_file, append_output, result, pid) ==
    [st EXCEPT !.trace.spawn = result, !.trace.spawn_argv = argv,
               !.trace.input_file = input_file,
               !.trace.output_file = output_file,
               !.trace.append_output = append_output, !.trace.pid = pid]

\* A variant that returns the failure without recording it.
SpawnFailed_silent(st, argv, input_file, output_file, append_output) ==
    Returns(SpawnCall(st, argv, input_file, output_file, append_output,
                      "failed", 0),
            SHELL_ERROR_EXECUTION_FAILED)

\* A variant that ends the process when the spawn fails.
SpawnFailed_exiting(st, argv, input_file, output_file, append_output) ==
    Exits([SpawnCall(st, argv, input_file, output_file, append_output,
                     "failed", 0)
              EXCEPT !.last_error = SHELL_ERROR_EXECUTION_FAILED])

SpawnFailed(st, argv, input_file, output_file, append_output) ==
    Returns([SpawnCall(st, argv, input_file, output_file, append_output,
                       "failed", 0)
                EXCEPT !.last_error = SHELL_ERROR_EXECUTION_FAILED],
            SHELL_ERROR_EXECUTION_FAILED)

\* A variant that kills and reaps the child when the job table takes no
\* job for it.
Spawned_reaping(st, argv0, argv, input_file, output_file, append_output, pid, state) ==
    LET s1 == [SpawnCall(st, argv, input_file, output_file, append_output,
                         "ok", pid)
                  EXCEPT !.procs[pid] = state]
        a == shell_add_job(s1, pid, argv0)
    IN  IF a.ret = SHELL_OK
        THEN Returns([a.st EXCEPT !.trace.add_job = a.ret], SHELL_OK)
        ELSE Returns([a.st EXCEPT !.trace.add_job = a.ret,
                                  !.procs[pid] = "free"], a.ret)

\* A variant that waits for the child before it returns.
Spawned_waiting(st, argv0, argv, input_file, output_file, append_output, pid, state) ==
    LET s1 == SpawnCall(st, argv, input_file, output_file, append_output,
                        "ok", pid)
        a == shell_add_job(s1, pid, argv0)
    IN  Returns([a.st EXCEPT !.trace.add_job = a.ret], SHELL_OK)

Spawned(st, argv0, argv, input_file, output_file, append_output, pid, state) ==
    LET s1 == [SpawnCall(st, argv, input_file, output_file, append_output,
                         "ok", pid)
                  EXCEPT !.procs[pid] = state]
        a == shell_add_job(s1, pid, argv0)
    IN  Returns([a.st EXCEPT !.trace.add_job = a.ret], SHELL_OK)

shell_execute_external(st, args, input_file, output_file, append_output) ==
    LET argv == ArgvOf(args)
    IN  IF args[1] = NULL
        THEN {Crashes(SpawnCall(st, argv, input_file, output_file,
                                append_output, "crashed", 0)),
              SpawnFailed(st, argv, input_file, output_file, append_output)}
             \cup {Spawned(st, NULL, argv, input_file, output_file,
                           append_output, p, "zombie") : p \in FreePids(st.procs)}
        ELSE {SpawnFailed(st, argv, input_file, output_file, append_output)}
             \cup IF CanSpawn(argv, input_file, output_file)
                  THEN {Spawned(st, args[1], argv, input_file, output_file,
                                append_output, p, "running")
                            : p \in FreePids(st.procs)}
                  ELSE {}

(***************************************************************************)
(* shell_execute_command.  The tokenizer stores tokens without a bound and *)
(* then writes the terminator to tokens[token_count]: with token_count at  *)
(* MAX_INPUT_SIZE or above it writes past the array, which is undefined    *)
(* behaviour: the call crashes, or goes on as if the array were larger.    *)
(***************************************************************************)
shell_execute_command(st, command) ==
    LET rd == Redirect(command)
        tokens == rd.tokens
        token_count == Len(tokens) - 1
        s0 == [st EXCEPT !.trace.line = command, !.trace.slot = rd.slot]
    IN  (IF token_count >= MAX_INPUT_SIZE THEN {Crashes(s0)} ELSE {})
        \cup
        UNION {
          IF c.fate # "return" \/ c.ret = SHELL_OK THEN {c}
          ELSE UNION {
                 IF b.fate # "return" \/ b.ret = SHELL_OK THEN {b}
                 ELSE shell_execute_external(b.st, tokens, rd.input_file,
                                             rd.output_file, rd.append_output)
                 : b \in {shell_execute_builtin(c.st, tokens[1])} }
          : c \in shell_execute_custom(s0, token_count, tokens) }

(***************************************************************************)
(* shell_add_history is declared by no file of the repository; it is       *)
(* modelled from the specification: a bounded, ordered history to which a  *)
(* line is appended, the call failing once the history is full.            *)
(***************************************************************************)
shell_add_history(st, input) ==
    IF Len(st.history) >= MAX_HISTORY_SIZE
    THEN Returns(st, SHELL_ERROR_HISTORY_FULL)
    ELSE Returns([st EXCEPT !.history = Append(@, input)], SHELL_OK)

(***************************************************************************)
(* One iteration of shell_run's loop on a line that fgets has read:        *)
(* input[strcspn(input, "\n")] = 0, shell_add_history, then                *)
(* shell_execute_command, whose status the loop ignores.                   *)
(***************************************************************************)
RECURSIVE strcspn(_, _)
strcspn(s, c) ==
    IF s = <<>> \/ Head(s) = c THEN 0 ELSE 1 + strcspn(Tail(s), c)

StripNewline(input) == SubSeq(input, 1, strcspn(input, "\n"))

shell_run_line(st, fgets_input) ==
    LET input == StripNewline(fgets_input)
    IN  shell_execute_command(shell_add_history(st, input).st, input)

\* fgets returns NULL at the end of input: the loop ends.
shell_run_eof(st) ==
    Returns([st EXCEPT !.last_error = SHELL_ERROR_INVALID_INPUT],
            SHELL_ERROR_INVALID_INPUT)

(***************************************************************************)
(* Actions.  Each is one call of the API by the host program, one          *)
(* iteration of shell_run's loop, or a step of the environment.            *)
(***************************************************************************)
Init ==
    /\ custom_commands = <<>>
    /\ jobs = <<>>
    /\ history = <<>>
    /\ last_error = SHELL_OK
    /\ procs = [p \in Pids |-> "free"]
    /\ pc = "host"
    /\ last = [NoTrace EXCEPT !.op = "shell_init", !.ret = SHELL_OK]

\* The state an operation leaves, with the record of what it did.
Commit(o, op, args, next_pc) ==
    /\ custom_commands' = o.st.custom_commands
    /\ jobs' = o.st.jobs
    /\ history' = o.st.history
    /\ last_error' = o.st.last_error
    /\ procs' = o.st.procs
    /\ last' = [o.st.trace EXCEPT !.op = op, !.args = args, !.ret = o.ret]
    /\ pc' = IF o.fate = "return" THEN next_pc ELSE o.fate

RegisterCommand(name, callback) ==
    /\ pc = "host"
    /\ Commit(shell_register_command(Session, name, callback),
              "shell_register_command", <<name, callback>>, "host")

AddJob(pid, command) ==
    /\ pc = "host"
    /\ LET a == shell_add_job(Session, pid, command)
       IN  Commit([a EXCEPT !.st.trace.add_job = a.ret],
                  "shell_add_job", <<pid, command>>, "host")

UpdateJobs ==
    /\ pc = "host"
    /\ Commit(shell_update_jobs(Session), "shell_update_jobs", <<>>, "host")

ExecuteCommand(command) ==
    /\ pc = "host"
    /\ \E o \in shell_execute_command(Session, command) :
           Commit(o, "shell_execute_command", <<command>>, "host")

ShellRunEnter ==
    /\ pc = "host"
    /\ pc' = "run"
    /\ last' = [NoTrace EXCEPT !.op = "shell_run"]
    /\ UNCHANGED <<custom_commands, jobs, history, last_error, procs>>

ShellRunLine(command) ==
    /\ pc = "run"
    /\ \E o \in shell_run_line(Session, command \o <<"\n">>) :
           Commit(o, "shell_run_line", <<command \o <<"\n">> >>, "run")

ShellRunEOF ==
    /\ pc = "run"
    /\ Commit(shell_run_eof(Session), "shell_run_eof", <<>>, "host")

\* A child process ends on its own.
ChildExit(pid) ==
    /\ pc \in {"host", "run"}
    /\ procs[pid] = "running"
    /\ procs' = [procs EXCEPT ![pid] = "zombie"]
    /\ last' = [NoTrace EXCEPT !.op = "child_exit", !.pid = pid]
    /\ UNCHANGED <<custom_commands, jobs, history, last_error, pc>>

(***************************************************************************)
(* Specifications.  Spec is the whole program on every input below.  The   *)
(* others take the same actions on the inputs of one part of the program   *)
(* each, so that every one of them is explored exhaustively.               *)
(***************************************************************************)
RegNames == {echo2, jobs_s, cat, NULL}

RegCallbacks == Callbacks \cup {NULL}

JobCommands == {cat, NULL}

Next ==
    \/ \E name \in RegNames, callback \in RegCallbacks :
           RegisterCommand(name, callback)
    \/ \E pid \in Pids, command \in JobCommands : AddJob(pid, command)
    \/ UpdateJobs
    \/ \E command \in Lines : ExecuteCommand(command)
    \/ ShellRunEnter
    \/ \E command \in Lines : ShellRunLine(command)
    \/ ShellRunEOF
    \/ \E pid \in Pids : ChildExit(pid)

Spec == Init /\ [][Next]_vars

\* The registry: registration, and dispatch of lines that start no process.
RegistryNames == {echo2, jobs_s, nx, NULL}

RegistryLines == {L_echo2, jobs_s, nx, <<>>}

NextRegistry ==
    \/ \E name \in RegistryNames, callback \in RegCallbacks :
           RegisterCommand(name, callback)
    \/ \E command \in RegistryLines : ExecuteCommand(command)

SpecRegistry == Init /\ [][NextRegistry]_vars

\* Dispatch: registration and every command line, called through the API.
DispatchNames == {echo2, jobs_s, cat}

NextDispatch ==
    \/ \E name \in DispatchNames, callback \in Callbacks :
           RegisterCommand(name, callback)
    \/ \E command \in Lines : ExecuteCommand(command)

SpecDispatch == Init /\ [][NextDispatch]_vars

\* The job table: shell_add_job, shell_update_jobs, the commands that
\* start a process or list the jobs, and the children's exits.
JobLines == {jobs_s, history_s, L_cat, L_cat_no, nx}

NextJobs ==
    \/ \E pid \in Pids, command \in JobCommands : AddJob(pid, command)
    \/ UpdateJobs
    \/ \E command \in JobLines : ExecuteCommand(command)
    \/ \E pid \in Pids : ChildExit(pid)

SpecJobs == Init /\ [][NextJobs]_vars

\* The read loop: the host registers a command, then calls shell_run.
RunLines == {<<>>, exit, nx, L_cat, L_cat_no, L_echo2}

NextRun ==
    \/ RegisterCommand(echo2, cb_fail)
    \/ ShellRunEnter
    \/ \E command \in RunLines : ShellRunLine(command)
    \/ ShellRunEOF
    \/ \E pid \in Pids : ChildExit(pid)

SpecRun == Init /\ [][NextRun]_vars

\* Both tables together: registration, shell_add_job, polls, dispatch of a
\* custom command, of a built-in and of a command that starts a process.
TableLines == {L_echo2, jobs_s, L_cat}

NextTables ==
    \/ RegisterCommand(echo2, cb_ok)
    \/ \E pid \in Pids : AddJob(pid, cat)
    \/ UpdateJobs
    \/ \E command \in TableLines : ExecuteCommand(command)
    \/ \E pid \in Pids : ChildExit(pid)

SpecTables == Init /\ [][NextTables]_vars

(***************************************************************************)
(* Vocabulary of the properties                                            *)
(***************************************************************************)
\* The last operation dispatched a command line (last.line is that line).
IsDispatch(l) == l.op \in {"shell_execute_command", "shell_run_line"}

IsBlank(line) == \A i \in 1..Len(line) : line[i] = " "

BuiltinNames == {exit, history_s, jobs_s}

\* Some entry of the registry carries this name.
Registered(cmds, name) == \E i \in 1..Len(cmds) : cmds[i].name = name

\* Entry i is the earliest entry of the registry with its name.
Earliest(cmds, i) == \A j \in 1..(i - 1) : cmds[j].name # cmds[i].name

\* The first word of a line that has one.
FirstWord(line) == Tokenize(line)[1]

\* The command shell_add_job was called with by the last operation.
AddJobCalled(l) == l.op = "shell_add_job" \/ l.spawn = "ok"

AddJobCommand(l) ==
    IF l.op = "shell_add_job" THEN l.args[2]
    ELSE IF l.spawn_argv = <<>> THEN NULL
    ELSE l.spawn_argv[1]

AllSettled(js) == \A i \in 1..Len(js) : ~js[i].running

(***************************************************************************)
(* C1.  Custom commands have strict priority: a line whose first word is   *)
(* a registered custom command invokes its callback and stops there; no    *)
(* built-in action runs and posix_spawnp is not called, whatever the       *)
(* callback returns.                                                       *)
(***************************************************************************)
C1_CustomStrictPriority ==
    (/\ IsDispatch(last)
     /\ ~IsBlank(last.line)
     /\ Registered(custom_commands, FirstWord(last.line)))
        => /\ last.custom > 0
           /\ last.builtin = "none"
           /\ last.spawn = "none"

(***************************************************************************)
(* C2.  A custom command that owns the line ends the dispatch with the     *)
(* status its callback returned, also a failure status: no later stage     *)
(* runs after it.                                                          *)
(***************************************************************************)
C2_OwnerStatusEndsDispatch ==
    (IsDispatch(last) /\ last.custom > 0)
        => /\ last.ret = CallbackResult(custom_commands[last.custom].callback)
           /\ last.builtin = "none" /\ last.spawn = "none"

(***************************************************************************)
(* C3.  A line that is empty or holds only spaces has no token, is         *)
(* reported as command-not-found and makes no call of posix_spawnp and no  *)
(* call of shell_add_job.                                                  *)
(***************************************************************************)
C3_BlankLineNotFound ==
    (IsDispatch(last) /\ IsBlank(last.line))
        => /\ Tokenize(last.line) = <<>>
           /\ last.ret = SHELL_ERROR_COMMAND_NOT_FOUND
           /\ last.spawn = "none"
           /\ last.add_job = "none"

(***************************************************************************)
(* C4.  A command whose first word is no registered custom command, no     *)
(* built-in and no executable of the search path returns                   *)
(* SHELL_ERROR_COMMAND_NOT_FOUND and leaves the job table and the history  *)
(* as they were.                                                           *)
(***************************************************************************)
NoStrategyOwns(cmds, line) ==
    /\ ~IsBlank(line)
    /\ ~IsRedirOp(FirstWord(line))
    /\ ~Registered(cmds, FirstWord(line))
    /\ FirstWord(line) \notin BuiltinNames
    /\ FirstWord(line) \notin Executables

C4_NotFoundStatus ==
    [][(/\ last'.op = "shell_execute_command"
        /\ NoStrategyOwns(custom_commands, last'.line))
           => /\ last'.ret = SHELL_ERROR_COMMAND_NOT_FOUND
              /\ jobs' = jobs
              /\ history' = history]_vars

(***************************************************************************)
(* C5.  A registration with a name and a callback succeeds and appends     *)
(* its entry while fewer than MAX_CUSTOM_COMMANDS entries are registered;  *)
(* from then on every registration returns                                 *)
(* SHELL_ERROR_CUSTOM_COMMAND_FULL and leaves the count and the entries    *)
(* unchanged.  Every registered entry that is the earliest of its name is  *)
(* the one whose callback a line starting with that name invokes, also     *)
(* after a rejected registration.                                          *)
(***************************************************************************)
C5_RegisterCapacity ==
    [][/\ (/\ last'.op = "shell_register_command"
           /\ last'.args[1] # NULL
           /\ last'.args[2] # NULL)
              => IF custom_command_count < MAX_CUSTOM_COMMANDS
                 THEN /\ last'.ret = SHELL_OK
                      /\ custom_commands' =
                             Append(custom_commands,
                                    [name |-> last'.args[1],
                                     callback |-> last'.args[2]])
                 ELSE /\ last'.ret = SHELL_ERROR_CUSTOM_COMMAND_FULL
                      /\ custom_commands' = custom_commands
       /\ (last'.op = "shell_execute_command" /\ ~IsBlank(last'.line))
              => /\ custom_commands' = custom_commands
                 /\ \A i \in 1..custom_command_count :
                        (/\ Earliest(custom_commands, i)
                         /\ custom_commands[i].name = FirstWord(last'.line))
                            => last'.custom = i]_vars

\* After a rejected registration (last_error still tells of it), the entry
\* registered last, the MAX_CUSTOM_COMMANDS-th, has been invoked.
C5_Witness ==
    /\ last.op = "shell_execute_command"
    /\ last.custom = MAX_CUSTOM_COMMANDS
    /\ custom_command_count = MAX_CUSTOM_COMMANDS
    /\ last_error = SHELL_ERROR_CUSTOM_COMMAND_FULL

(***************************************************************************)
(* C6.  The job table never holds more than MAX_JOBS entries, and          *)
(* shell_add_job called with a command on a full table returns             *)
(* SHELL_ERROR_JOB_CONTROL_FULL and leaves every entry as it was.          *)
(***************************************************************************)
C6_JobTableBounded ==
    [][/\ Len(jobs') <= MAX_JOBS
       /\ (/\ AddJobCalled(last')
           /\ AddJobCommand(last') # NULL
           /\ job_count >= MAX_JOBS)
              => /\ last'.add_job = SHELL_ERROR_JOB_CONTROL_FULL
                 /\ jobs' = jobs]_vars

C6_Witness ==
    /\ last.op = "shell_add_job"
    /\ last.ret = SHELL_ERROR_JOB_CONTROL_FULL
    /\ job_count = MAX_JOBS

(***************************************************************************)
(* C7.  A job that is not running stays in the table and stays not         *)
(* running through every later operation, and a poll of a table whose      *)
(* jobs are all settled changes no job, waits for no process and emits no  *)
(* completion notice.                                                      *)
(***************************************************************************)
C7_SettledStaysSettled ==
    [][/\ \A i \in 1..Len(jobs) :
              ~jobs[i].running => (i <= Len(jobs') /\ ~jobs'[i].running)
       /\ (last'.polled /\ AllSettled(jobs))
              => /\ jobs' = jobs
                 /\ procs' = procs
                 /\ last'.notices = <<>>]_vars

\* A poll of a full table of settled jobs, while a later child runs under
\* the pid of one of them.
C7_Witness ==
    /\ last.op = "shell_update_jobs"
    /\ last.notices = <<>>
    /\ job_count = MAX_JOBS
    /\ AllSettled(jobs)
    /\ \E i \in 1..Len(jobs) : procs[jobs[i].pid] = "running"

(***************************************************************************)
(* C8.  When posix_spawnp fails, the dispatch returns                      *)
(* SHELL_ERROR_EXECUTION_FAILED, last_error holds it, no job is added, no  *)
(* process exists that did not before, and the caller goes on: the read    *)
(* loop stays in the loop.                                                 *)
(***************************************************************************)
C8_SpawnFailure ==
    [][(IsDispatch(last') /\ last'.spawn = "failed")
           => /\ last'.ret = SHELL_ERROR_EXECUTION_FAILED
              /\ last_error' = SHELL_ERROR_EXECUTION_FAILED
              /\ jobs' = jobs
              /\ procs' = procs
              /\ last'.add_job = "none"
              /\ pc' = pc]_vars

\* The redirection file of a line read by the loop could not be opened.
C8_Witness ==
    /\ last.op = "shell_run_line"
    /\ last.line = L_cat_no
    /\ last.spawn = "failed"
    /\ last.input_file = f_no
    /\ pc = "run"

(***************************************************************************)
(* C9.  A successful spawn of a command, the job table not being full,     *)
(* appends exactly one job within the dispatch: the child's pid, the       *)
(* command's argument 0 and running = TRUE; the dispatch returns SHELL_OK  *)
(* while the child is still running.  "cat < in > out" adds one job whose  *)
(* command is "cat".                                                       *)
(***************************************************************************)
C9_SpawnAddsJob ==
    [][(/\ IsDispatch(last')
        /\ last'.spawn = "ok"
        /\ last'.spawn_argv # <<>>
        /\ job_count < MAX_JOBS)
           => /\ jobs' = Append(jobs, [pid |-> last'.pid,
                                       command |-> FirstWord(last'.line),
                                       running |-> TRUE])
              /\ last'.spawn_argv[1] = FirstWord(last'.line)
              /\ last'.line = L_cat => jobs'[Len(jobs')].command = cat
              /\ procs[last'.pid] = "free"
              /\ procs'[last'.pid] = "running"
              /\ last'.ret = SHELL_OK]_vars

C9_Witness ==
    /\ last.op = "shell_execute_command"
    /\ last.line = L_cat
    /\ last.spawn = "ok"
    /\ job_count = 1
    /\ jobs[1] = [pid |-> last.pid, command |-> cat, running |-> TRUE]
    /\ procs[last.pid] = "running"

(***************************************************************************)
(* C10.  The read loop is left only through the exit built-in or at the    *)
(* end of the input, and the end of the input is a clean exit: shell_run   *)
(* returns SHELL_OK and records no error.  (A crash of the process on      *)
(* undefined behaviour is not counted as leaving the loop.)                *)
(***************************************************************************)
C10_LoopEndsCleanly ==
    [][(pc = "run" /\ pc' \notin {"run", "crash"})
           => \/ pc' = "exit" /\ last'.builtin = "exit"
              \/ /\ last'.op = "shell_run_eof"
                 /\ last'.ret = SHELL_OK
                 /\ last_error' = last_error]_vars

(***************************************************************************)
(* C11.  The argument list handed to the resolver is the token sequence,   *)
(* in order, without the redirection operators and without the token that  *)
(* follows each of them, so that an argument after a redirection stays an  *)
(* argument; the input path is the token after "<", the output path the    *)
(* token after ">" or ">>", and append is set exactly by ">>".  Argument 0  *)
(* is no redirection operator and exists when some token is left.          *)
(***************************************************************************)
RECURSIVE StripRedirections(_)
StripRedirections(toks) ==
    IF toks = <<>> THEN <<>>
    ELSE IF IsRedirOp(Head(toks))
    THEN StripRedirections(IF Len(toks) >= 2 THEN Tail(Tail(toks)) ELSE <<>>)
    ELSE <<Head(toks)>> \o StripRedirections(Tail(toks))

\* The token after the last operator of the set ops, NULL if there is none.
RECURSIVE PathAfter(_, _)
PathAfter(toks, ops) ==
    IF Len(toks) < 2 THEN NULL
    ELSE LET rest == PathAfter(Tail(toks), ops)
         IN  IF rest # NULL THEN rest
             ELSE IF Head(toks) \in ops THEN toks[2]
             ELSE NULL

\* The argument list and the redirections that the resolver was given:
\* those of the external stage if it ran, else those of the callback.
GivenArgs(l) == IF l.spawn # "none" THEN l.spawn_argv ELSE ArgvOf(l.argv)

C11_RedirectionExtraction ==
    (IsDispatch(last) /\ (last.spawn # "none" \/ last.custom > 0))
        => LET toks == Tokenize(last.line)
               args == StripRedirections(toks)
           IN  /\ GivenArgs(last) = args
               /\ args # <<>> => ~IsRedirOp(GivenArgs(last)[1])
               /\ last.spawn # "none"
                      => /\ last.input_file = PathAfter(toks, {LT})
                         /\ last.output_file = PathAfter(toks, {GT, GTGT})
                         /\ last.append_output
                                = (PathAfter(toks, {GTGT}) # NULL)

(***************************************************************************)
(* C12.  A redirection operator that is the last token of the line makes   *)
(* the command fail with an invalid-syntax or invalid-input status, or     *)
(* sets no redirect path; either way the scan reads no slot beyond the     *)
(* token array, for every token count up to the capacity of the array.     *)
(***************************************************************************)
LastToken(line) == Tokenize(line)[Len(Tokenize(line))]

TrailingOperator(line) ==
    /\ line # NULL
    /\ Tokenize(line) # <<>>
    /\ IsRedirOp(LastToken(line))

C12_TrailingOperator ==
    (/\ IsDispatch(last)
     /\ TrailingOperator(last.line)
     /\ Len(Tokenize(last.line)) <= MAX_INPUT_SIZE)
        => /\ last.slot < MAX_INPUT_SIZE
           /\ \/ last.ret = SHELL_ERROR_INVALID_INPUT
              \/ IF LastToken(last.line) = LT
                 THEN Redirect(last.line).input_file = NULL
                 ELSE Redirect(last.line).output_file = NULL

(***************************************************************************)
(* C13.  A successful spawn while the job table is full: the dispatch      *)
(* returns SHELL_OK or the table-full status, the job table is unchanged,  *)
(* and the child is left running: it is neither killed nor reaped, and no  *)
(* other process changes.                                                  *)
(***************************************************************************)
C13_SpawnWithFullTable ==
    [][(/\ IsDispatch(last')
        /\ last'.spawn = "ok"
        /\ job_count >= MAX_JOBS)
           => /\ last'.ret \in {SHELL_OK, SHELL_ERROR_JOB_CONTROL_FULL}
              /\ last'.add_job = SHELL_ERROR_JOB_CONTROL_FULL
              /\ jobs' = jobs
              /\ procs[last'.pid] = "free"
              /\ procs' = [procs EXCEPT ![last'.pid] = "running"]]_vars

C13_Witness ==
    /\ IsDispatch(last)
    /\ last.spawn = "ok"
    /\ last.add_job = SHELL_ERROR_JOB_CONTROL_FULL
    /\ last.ret = SHELL_OK
    /\ job_count = MAX_JOBS
    /\ procs[last.pid] = "running"

(***************************************************************************)
(* C14.  A poll marks not running every job whose process has exited (the  *)
(* job being the first running entry of the table with that pid, as it is  *)
(* for every job of a process the shell started), and emits one completion *)
(* notice, with the 1-based index and the command text, for each job it    *)
(* marks and for no other; the job never runs again, so the notice is its  *)
(* only one.  The notices of one poll are in insertion order.  A running   *)
(* flag changes only inside a poll, and nothing else emits a notice.       *)
(***************************************************************************)
\* Job i is running and no running job before it has its pid.
FirstRunningOfPid(js, i) ==
    /\ js[i].running
    /\ \A j \in 1..(i - 1) : js[j].running => js[j].pid # js[i].pid

\* Job i is marked not running by the step.
Settles(i) == i <= Len(jobs') /\ jobs[i].running /\ ~jobs'[i].running

NoticesOf(notices, i) == {k \in 1..Len(notices) : notices[k][1] = i}

C14_PollSettlesExited ==
    [][/\ \A i \in 1..Len(jobs) :
              /\ i <= Len(jobs')
              /\ jobs'[i].running # jobs[i].running
                     => (last'.polled /\ Settles(i))
       /\ ~last'.polled => last'.notices = <<>>
       /\ last'.polled
              => /\ \A i \in 1..Len(jobs) :
                        (FirstRunningOfPid(jobs, i)
                             /\ procs[jobs[i].pid] = "zombie") => Settles(i)
                 /\ \A i \in 1..Len(jobs) :
                        Cardinality(NoticesOf(last'.notices, i))
                            = IF Settles(i) THEN 1 ELSE 0
                 /\ \A k \in 1..Len(last'.notices) :
                        /\ last'.notices[k][1] \in 1..Len(jobs)
                        /\ last'.notices[k][2]
                               = jobs[last'.notices[k][1]].command
                        /\ k > 1 => last'.notices[k - 1][1]
                                        < last'.notices[k][1]]_vars

\* A poll that finds two exited jobs and settles both, in order.
C14_Witness ==
    /\ last.op = "shell_update_jobs"
    /\ Len(last.notices) = 2
    /\ last.notices[1][1] = 1
    /\ last.notices[2][1] = 2
    /\ AllSettled(jobs)

(***************************************************************************)
(* C15.  The jobs built-in polls before it prints: a job whose process     *)
(* had exited when jobs was invoked (the job being the first running       *)
(* entry with its pid), and a job that was settled before, is listed as    *)
(* Done; the listing has one line per job, in insertion order, with the    *)
(* 1-based index and the command text.  The history and jobs built-ins     *)
(* add and remove no job and start no process.                             *)
(***************************************************************************)
SameJobs(js1, js2) ==
    /\ Len(js1) = Len(js2)
    /\ \A i \in 1..Len(js1) :
           js1[i].pid = js2[i].pid /\ js1[i].command = js2[i].command

C15_JobsListsAfterPoll ==
    [][/\ last'.builtin = "jobs"
              => /\ last'.polled
                 /\ Len(last'.listing) = Len(jobs)
                 /\ \A i \in 1..Len(jobs) :
                        /\ last'.listing[i][1] = i
                        /\ last'.listing[i][3] = jobs[i].command
                        /\ ~jobs[i].running => ~last'.listing[i][2]
                        /\ (FirstRunningOfPid(jobs, i)
                                /\ procs[jobs[i].pid] = "zombie")
                               => ~last'.listing[i][2]
                        /\ (jobs[i].running /\ procs[jobs[i].pid] = "running")
                               => last'.listing[i][2]
       /\ last'.builtin \in {"jobs", "history"}
              => /\ SameJobs(jobs, jobs')
                 /\ last'.spawn = "none"
                 /\ \A p \in Pids : procs[p] = "free" => procs'[p] = "free"
       /\ last'.builtin = "history" => (jobs' = jobs /\ procs' = procs)]_vars

\* jobs lists as Done a job whose process exited since the last poll, and
\* as Running the job after it.
C15_Witness ==
    /\ last.builtin = "jobs"
    /\ last.notices = <<<<1, cat>>>>
    /\ last.listing = <<<<1, FALSE, cat>>, <<2, TRUE, cat>>>>

(***************************************************************************)
(* C16.  Registering a name that is already registered is treated like     *)
(* any registration: with room left it succeeds and appends a second       *)
(* entry with that name.  Every dispatch of a line that starts with a      *)
(* registered name calls the callback of the earliest entry with that      *)
(* name, never that of a later one.                                        *)
(***************************************************************************)
EntriesNamed(cmds, name) == {i \in 1..Len(cmds) : cmds[i].name = name}

C16_DuplicateFirstMatch ==
    [][/\ (/\ last'.op = "shell_register_command"
           /\ last'.args[1] # NULL
           /\ last'.args[2] # NULL
           /\ Registered(custom_commands, last'.args[1])
           /\ custom_command_count < MAX_CUSTOM_COMMANDS)
              => /\ last'.ret = SHELL_OK
                 /\ custom_command_count' = custom_command_count + 1
                 /\ EntriesNamed(custom_commands', last'.args[1])
                        = EntriesNamed(custom_commands, last'.args[1])
                              \cup {custom_command_count'}
                 /\ custom_commands'[custom_command_count'].callback
                        = last'.args[2]
       /\ (/\ IsDispatch(last')
           /\ ~IsBlank(last'.line)
           /\ Registered(custom_commands, FirstWord(last'.line)))
              => /\ last'.custom
                        \in EntriesNamed(custom_commands, FirstWord(last'.line))
                 /\ \A j \in EntriesNamed(custom_commands,
                                          FirstWord(last'.line)) :
                        last'.custom <= j]_vars

\* Two entries named echo2; the line is given to the first, whose callback
\* fails, not to the second, whose callback would have succeeded.
C16_Witness ==
    /\ custom_commands = <<[name |-> echo2, callback |-> cb_fail],
                           [name |-> echo2, callback |-> cb_ok]>>
    /\ last.op = "shell_execute_command"
    /\ last.line = L_echo2
    /\ last.custom = 1
    /\ last.ret # SHELL_OK

(***************************************************************************)
(* C17.  Through every register, execute, add-job and poll operation the   *)
(* two counts stay within 0..MAX_CUSTOM_COMMANDS and 0..MAX_JOBS and never *)
(* decrease; an entry below the count keeps its name and callback, or its  *)
(* pid and command; the only change to an existing job is its running      *)
(* flag going from TRUE to FALSE.                                          *)
(***************************************************************************)
C17_TablesOnlyGrow ==
    [][/\ custom_command_count' \in 0..MAX_CUSTOM_COMMANDS
       /\ job_count' \in 0..MAX_JOBS
       /\ custom_command_count' >= custom_command_count
       /\ job_count' >= job_count
       /\ \A i \in 1..custom_command_count :
              custom_commands'[i] = custom_commands[i]
       /\ \A i \in 1..job_count :
              /\ jobs'[i].pid = jobs[i].pid
              /\ jobs'[i].command = jobs[i].command
              /\ jobs'[i].running => jobs[i].running]_vars

\* Both tables are full, an operation on each was rejected or changed it,
\* and a job has gone from running to not running.
C17_Witness ==
    /\ custom_command_count = MAX_CUSTOM_COMMANDS
    /\ job_count = MAX_JOBS
    /\ \E i \in 1..job_count : ~jobs[i].running
    /\ \E i \in 1..job_count : jobs[i].running
    /\ last.op = "shell_register_command"
    /\ last.ret = SHELL_ERROR_CUSTOM_COMMAND_FULL

(***************************************************************************)
(* C18.  Whenever the dispatch invokes a custom command's callback, the    *)
(* argument count it passes is the number of entries of the argument list  *)
(* before its terminating NULL, so that argv[i] is a token, not NULL, for  *)
(* every 0 <= i < argc, also for lines with redirection operators.         *)
(***************************************************************************)
C18_CallbackArgcMatchesArgv ==
    (IsDispatch(last) /\ last.custom > 0)
        => /\ last.argc = Len(ArgvOf(last.argv))
           /\ \A i \in 1..last.argc : last.argv[i] # NULL

(***************************************************************************)
(* C19.  Whenever shell_execute_command returns a status other than        *)
(* SHELL_OK, last_error holds that status on return; and last_error, once  *)
(* it holds a failure, is never set back to SHELL_OK, whatever succeeds    *)
(* later.                                                                  *)
(***************************************************************************)
C19_LastErrorIsReturnedStatus ==
    [][/\ (/\ last'.op = "shell_execute_command"
           /\ pc' = "host"
           /\ last'.ret # SHELL_OK)
              => last_error' = last'.ret
       /\ last_error # SHELL_OK => last_error' # SHELL_OK]_vars

\* A custom command has succeeded and the failure of an earlier spawn is
\* still in last_error.
C19_Witness ==
    /\ last.op = "shell_execute_command"
    /\ last.custom > 0
    /\ last.ret = SHELL_OK
    /\ last_error = SHELL_ERROR_EXECUTION_FAILED

====
